---- MODULE Spec2Model ----
(***************************************************************************)
(* A model of khmac's KHMAC class (src/khmac/khmac.py): the keyed-hash     *)
(* message authentication code built from two hash objects of a            *)
(* hashlib-compatible provider.                                            *)
(*                                                                         *)
(* Python values are records [t |-> type, v |-> sequence of integers]:     *)
(* bytes are sequences of 0..255, str are sequences of code points.  Hash  *)
(* objects live in a heap and are reached through references, so that      *)
(* copy() and in-place update() keep the aliasing they have in Python.     *)
(***************************************************************************)
EXTENDS Integers, Sequences, FiniteSets, TLC

VARIABLES
    heap,   \* reference -> hash object (its algorithm and the bytes absorbed)
    h,      \* the application's KHMAC object: its two private references
    given,  \* history: the key, algorithm and total message handed to h
    ret     \* the last call made and what it returned or raised

vars == <<heap, h, given, ret>>

----------------------------------------------------------------------------
(* Bounds of the model *)

\* keys handed to the constructor have at most this many bytes
MaxKeyLen == 3
\* a context absorbs at most this many message bytes in total
MaxMsgLen == 2

KeyBytes == {0, 97}
MsgBytes == {97, 98}

RECURSIVE SeqsUpTo(_, _)
SeqsUpTo(S, n) ==
    IF n = 0 THEN {<< >>}
    ELSE LET P == SeqsUpTo(S, n - 1)
         IN  P \cup {Append(s, x) : s \in {p \in P : Len(p) = n - 1}, x \in S}

\* the keys and the messages the caller draws from
Keys == SeqsUpTo(KeyBytes, MaxKeyLen)
Msgs == SeqsUpTo(MsgBytes, MaxMsgLen)

----------------------------------------------------------------------------
(* Python values *)

Bytes(v) == [t |-> "bytes", v |-> v]
Str(v) == [t |-> "str", v |-> v]
IntObj == [t |-> "int", v |-> << >>]
NoneObj == [t |-> "None", v |-> << >>]
PyTrue == [t |-> "bool", v |-> <<1>>]
PyFalse == [t |-> "bool", v |-> <<0>>]
Bool(b) == IF b THEN PyTrue ELSE PyFalse
Instance == [t |-> "KHMAC", v |-> << >>]

\* isinstance(x, (bytes, bytearray))
IsBytes(x) == x.t = "bytes"
\* isinstance(x, str)
IsStr(x) == x.t = "str"

\* UTF-8 of one code point (str.encode() with the default encoding)
Utf8(cp) ==
    IF cp < 128 THEN <<cp>>
    ELSE IF cp < 2048 THEN <<192 + (cp \div 64), 128 + (cp % 64)>>
    ELSE <<224 + (cp \div 4096), 128 + ((cp \div 64) % 64), 128 + (cp % 64)>>

RECURSIVE EncodeSeq(_)
EncodeSeq(s) == IF s = << >> THEN << >> ELSE Utf8(Head(s)) \o EncodeSeq(Tail(s))

\* str.encode()
Encode(x) == Bytes(EncodeSeq(x.v))

----------------------------------------------------------------------------
(* OPAD, IPAD and xor (module level of khmac.py) *)

RECURSIVE XorBits(_, _, _)
XorBits(a, b, n) ==
    IF n = 0 THEN 0
    ELSE (((a % 2) + (b % 2)) % 2) + 2 * XorBits(a \div 2, b \div 2, n - 1)

OPAD == [i \in 0..255 |-> XorBits(i, 92, 8)]
IPAD == [i \in 0..255 |-> XorBits(i, 54, 8)]

\* bytes.translate(table)
RECURSIVE translate(_, _)
translate(b, table) ==
    IF b = << >> THEN << >> ELSE <<table[Head(b)]>> \o translate(Tail(b), table)

\* xor(key, pad)
xor(key, pad) == translate(key, pad)

\* bytes.ljust(width, b'\0')
ljust(key, width) ==
    IF Len(key) >= width THEN key
    ELSE key \o [i \in 1..(width - Len(key)) |-> 0]

----------------------------------------------------------------------------
(* The hash provider: constructors with the hashlib interface.  Two small  *)
(* hash functions stand for the functions a caller may name or pass:       *)
(* toy16 has a digest no longer than its block, wide16 a digest longer     *)
(* than its block.                                                         *)

Algs == {"toy16", "wide16"}

block_size(a) == IF a = "toy16" THEN 2 ELSE 1
digest_size(a) == 2

ToyIV(a) == IF a = "toy16" THEN 22 ELSE 8
ToyAbsorb(acc, b) == (acc * 33 + b + 1) % 65536

RECURSIVE ToyState(_, _, _)
ToyState(acc, data, i) ==
    IF i > Len(data) THEN acc ELSE ToyState(ToyAbsorb(acc, data[i]), data, i + 1)

\* the digest_size bytes of the final state, most significant first
ToyOutput(acc) == <<acc \div 256, acc % 256>>

\* hash_func(data).digest()
ToyDigest(a, data) == ToyOutput(ToyState(ToyIV(a), data, 1))

Refs == {"b1", "b2", "tmp", "o1", "o2"}
\* A hash object: its algorithm, its running state acc and, as history, the
\* bytes it has absorbed.
NoObj == [alg |-> "none", acc |-> 0, data |-> << >>]

\* hash_func(data)
HashNew(hp, r, a, data) ==
    [hp EXCEPT ![r] = [alg |-> a, acc |-> ToyState(ToyIV(a), data, 1), data |-> data]]

\* hashobj.update(msg): only bytes-like arguments are hashed
HashUpdate(hp, r, msg) ==
    IF IsBytes(msg)
    THEN [exc |-> "",
          heap |-> [hp EXCEPT ![r].acc = ToyState(@, msg.v, 1), ![r].data = @ \o msg.v]]
    ELSE [exc |-> "TypeError", heap |-> hp]

\* hashobj.copy(): a new object with the same state
HashCopy(hp, src, dst) == [hp EXCEPT ![dst] = hp[src]]

\* hashobj.digest()
HashDigest(hp, r) == ToyOutput(hp[r].acc)

HexDigit(n) == IF n < 10 THEN 48 + n ELSE 87 + n

RECURSIVE Hexlify(_)
Hexlify(b) ==
    IF b = << >> THEN << >>
    ELSE <<HexDigit(Head(b) \div 16), HexDigit(Head(b) % 16)>> \o Hexlify(Tail(b))

\* hashobj.hexdigest()
HashHexdigest(hp, r) == Str(Hexlify(HashDigest(hp, r)))

\* the objects still referenced once a statement is over
Collect(hp, roots) == [r \in Refs |-> IF r \in roots THEN hp[r] ELSE NoObj]

----------------------------------------------------------------------------
(* class KHMAC *)

NoCtx == [alive |-> FALSE, block_1 |-> "b1", block_2 |-> "b2"]

\* the hash_func argument: a callable, a name, or something else
HfCallable(a) == [t |-> "callable", name |-> a]
HfName(n) == [t |-> "str", name |-> n]
HfInt == [t |-> "int", name |-> ""]
NoHf == [t |-> "none", name |-> ""]

\* the attributes of the provider module: its constructors, and attributes
\* that are no constructors (hashlib.algorithms_available is a set)
HashlibAttrs == Algs \cup {"algorithms_available"}

\* "Test if the hash function is supported"
ResolveHash(hash_func) ==
    IF hash_func.t = "callable" THEN [exc |-> "", obj |-> hash_func.name]
    ELSE IF hash_func.t = "str" /\ hash_func.name \in HashlibAttrs
         THEN [exc |-> "", obj |-> hash_func.name]
    ELSE [exc |-> "ValueError", obj |-> ""]

\* hash_func() succeeds: the resolved object is a hash constructor
IsConstructor(obj) == obj \in Algs

\* NormalizeKey without the condensing of a long key
NormalizeKeyNoHash(key, a) == ljust(key, block_size(a))

\* the key the two pads are applied to
NormalizeKey(key, a) ==
    LET k == IF Len(key) > block_size(a) THEN ToyDigest(a, key) ELSE key
    IN  ljust(k, block_size(a))

\* update feeding the outer hash object
UpdateOuter(hp, self, msg) == HashUpdate(hp, self.block_1, msg)

\* KHMAC.update
Update(hp, self, msg) == HashUpdate(hp, self.block_2, msg)

\* KHMAC.__init__, building the two hash objects at r1 and r2
Construct(hp, key, msg, hash_func, r1, r2) ==
    LET k == IF IsStr(key) THEN Encode(key) ELSE key
        m == IF IsStr(msg) THEN Encode(msg) ELSE msg
        res == ResolveHash(hash_func)
        Fail(e) == [exc |-> e, heap |-> hp, self |-> NoCtx]
    IN  IF ~IsBytes(k) THEN Fail("TypeError")
        ELSE IF ~IsBytes(m) THEN Fail("TypeError")
        ELSE IF res.exc # "" THEN Fail(res.exc)
        ELSE IF ~IsConstructor(res.obj) THEN Fail("TypeError")
        ELSE LET a == res.obj
                 nk == NormalizeKey(k.v, a)
                 hp1 == HashNew(hp, r1, a, xor(nk, OPAD))
                 hp2 == HashNew(hp1, r2, a, xor(nk, IPAD))
                 self == [alive |-> TRUE, block_1 |-> r1, block_2 |-> r2]
                 upd == IF m.v # << >> THEN Update(hp2, self, m)
                        ELSE [exc |-> "", heap |-> hp2]
             IN  [exc |-> upd.exc, heap |-> upd.heap, self |-> self]

\* __finalize working on block_1 itself, not on a copy
FinalizeInPlace(hp, self) ==
    LET u == HashUpdate(hp, self.block_1, Bytes(HashDigest(hp, self.block_2)))
    IN  [heap |-> u.heap, hmac |-> self.block_1]

\* KHMAC.__finalize: a copy of block_1 fed with block_2's digest
Finalize(hp, self) ==
    LET hp1 == HashCopy(hp, self.block_1, "tmp")
        u == HashUpdate(hp1, "tmp", Bytes(HashDigest(hp1, self.block_2)))
    IN  [heap |-> u.heap, hmac |-> "tmp"]

\* KHMAC.digest
Digest(hp, self) ==
    LET f == Finalize(hp, self)
    IN  [heap |-> f.heap, val |-> Bytes(HashDigest(f.heap, f.hmac))]

\* KHMAC.hexdigest
Hexdigest(hp, self) ==
    LET f == Finalize(hp, self)
    IN  [heap |-> f.heap, val |-> HashHexdigest(f.heap, f.hmac)]

IsHexDigit(c) == c \in (48..57) \cup (65..70) \cup (97..102)
HexVal(c) == IF c <= 57 THEN c - 48 ELSE IF c <= 70 THEN c - 55 ELSE c - 87

RECURSIVE UnhexSeq(_)
UnhexSeq(s) ==
    IF s = << >> THEN << >>
    ELSE <<16 * HexVal(s[1]) + HexVal(s[2])>> \o UnhexSeq(SubSeq(s, 3, Len(s)))

\* binascii.unhexlify: "Error" is binascii.Error
unhexlify(x) ==
    IF ~(IsBytes(x) \/ IsStr(x)) THEN [exc |-> "TypeError", val |-> x]
    ELSE IF IsStr(x) /\ \E i \in 1..Len(x.v) : x.v[i] >= 128
         THEN [exc |-> "ValueError", val |-> x]
    ELSE IF Len(x.v) % 2 # 0 \/ \E i \in 1..Len(x.v) : ~IsHexDigit(x.v[i])
         THEN [exc |-> "Error", val |-> x]
    ELSE [exc |-> "", val |-> Bytes(UnhexSeq(x.v))]

\* _operator._compare_digest: two bytes-like objects, or two ASCII str
cmp(a, b) ==
    IF IsBytes(a) /\ IsBytes(b) THEN [exc |-> "", val |-> Bool(a.v = b.v)]
    ELSE IF IsStr(a) /\ IsStr(b) /\ \A i \in 1..Len(a.v) : a.v[i] < 128
         THEN [exc |-> "", val |-> Bool(a.v = b.v)]
    ELSE [exc |-> "TypeError", val |-> NoneObj]

\* verify without the hexadecimal decoding
VerifyNoUnhex(hp, self, hmac, other) ==
    LET d0 == IF hmac.t = "KHMAC" THEN Digest(hp, other)
              ELSE [heap |-> hp, val |-> hmac]
        d1 == Digest(d0.heap, self)
        c == cmp(d0.val, d1.val)
    IN  [heap |-> d1.heap, exc |-> c.exc, val |-> c.val]

\* verify taking self's digest, not hmac's, for a KHMAC argument
VerifySelfDigest(hp, self, hmac, other) ==
    LET d0 == IF hmac.t = "KHMAC" THEN Digest(hp, self)
              ELSE [heap |-> hp, val |-> hmac]
        u == unhexlify(d0.val)
        cand == IF u.exc = "" THEN u.val ELSE d0.val
    IN  IF u.exc \notin {"", "Error"}
        THEN [heap |-> d0.heap, exc |-> u.exc, val |-> NoneObj]
        ELSE LET d1 == Digest(d0.heap, self)
                 c == cmp(cand, d1.val)
             IN  [heap |-> d1.heap, exc |-> c.exc, val |-> c.val]

\* KHMAC.verify; other is the KHMAC object when hmac is one
Verify(hp, self, hmac, other) ==
    LET d0 == IF hmac.t = "KHMAC" THEN Digest(hp, other)
              ELSE [heap |-> hp, val |-> hmac]
        u == unhexlify(d0.val)
        cand == IF u.exc = "" THEN u.val ELSE d0.val
    IN  IF u.exc \notin {"", "Error"}
        THEN [heap |-> d0.heap, exc |-> u.exc, val |-> NoneObj]
        ELSE LET d1 == Digest(d0.heap, self)
                 c == cmp(cand, d1.val)
             IN  [heap |-> d1.heap, exc |-> c.exc, val |-> c.val]

\* attributes of a KHMAC object that can be called
Methods == {"digest", "hexdigest", "update", "verify"}

\* obj.name(): AttributeError when the class has no such method
CallMethod(name) == IF name \in Methods THEN "" ELSE "AttributeError"

----------------------------------------------------------------------------
(* The caller: one KHMAC object h, built once, then updated and read.  A   *)
(* call leaves its outcome in ret; the caller takes it before the next     *)
(* call.                                                                   *)

\* how a digest is handed to verify: as bytes, as hex text, as the object
Forms == {"digest", "hexdigest", "instance"}

KeyArgs == {Bytes(k) : k \in Keys} \cup {Str(<<97>>), IntObj}
MsgArgs ==
    {Bytes(m) : m \in Msgs} \cup {Str(<<98>>), Str(<<233>>), IntObj}
HashArgs ==
    {HfCallable(a) : a \in Algs} \cup {HfName(n) : n \in HashlibAttrs \cup {"nosuch"}}
        \cup {HfInt}
UpdateArgs == {Bytes(m) : m \in Msgs} \cup {Str(<<98>>), IntObj}
\* "zz", "a", a non-ASCII str, "", b"", short, binary, hex and long bytes, an int
VerifyArgs ==
    {Str(<<122, 122>>), Str(<<97>>), Str(<<233>>), Str(<< >>), Bytes(<< >>),
     Bytes(<<1>>), Bytes(<<1, 2>>), Bytes(<<48, 49>>), Bytes(<<1, 2, 3>>), IntObj}

Idle ==
    [op |-> "idle", exc |-> "", out |-> NoneObj, arg |-> NoneObj, hf |-> NoHf,
     keyT |-> "", msgT |-> "", kind |-> "", sameKey |-> FALSE, sameMsg |-> FALSE,
     sameDigest |-> FALSE]

NoGiven == [key |-> << >>, alg |-> "none", msg |-> << >>]

Roots(self) == IF self.alive THEN {self.block_1, self.block_2} ELSE {}

\* the bytes of a key or message argument that is bytes or str
BytesOf(x) == IF IsStr(x) THEN EncodeSeq(x.v) ELSE x.v

Init ==
    /\ heap = [r \in Refs |-> NoObj]
    /\ h = NoCtx
    /\ given = NoGiven
    /\ ret = Idle

\* the state a call leaves behind
Commit(r) ==
    /\ heap' = r.heap
    /\ h' = r.h
    /\ given' = r.given
    /\ ret' = r.ret

\* h = KHMAC(key, msg, hash_func): h is bound only when __init__ returns
CallNew(key, msg, hash_func) ==
    LET c == Construct(heap, key, msg, hash_func, "b1", "b2")
        r == [Idle EXCEPT !.op = "new", !.exc = c.exc, !.hf = hash_func,
                          !.keyT = key.t, !.msgT = msg.t]
    IN  IF c.exc = ""
        THEN [heap |-> Collect(c.heap, Roots(c.self)), h |-> c.self,
              given |-> [key |-> BytesOf(key), alg |-> ResolveHash(hash_func).obj,
                         msg |-> BytesOf(msg)],
              ret |-> r]
        ELSE [heap |-> Collect(c.heap, Roots(h)), h |-> h, given |-> given, ret |-> r]

New ==
    /\ ret.op = "idle"
    /\ ~h.alive
    /\ \E key \in KeyArgs, msg \in MsgArgs, hash_func \in HashArgs :
          Commit(CallNew(key, msg, hash_func))

\* h.update(msg)
CallUpdate(msg) ==
    LET u == Update(heap, h, msg)
    IN  [heap |-> Collect(u.heap, Roots(h)), h |-> h,
         given |-> IF u.exc = "" THEN [given EXCEPT !.msg = @ \o msg.v] ELSE given,
         ret |-> [Idle EXCEPT !.op = "update", !.exc = u.exc, !.arg = msg]]

UpdateOp ==
    /\ ret.op = "idle"
    /\ h.alive
    /\ \E msg \in UpdateArgs :
          /\ IsBytes(msg) => Len(given.msg) + Len(msg.v) <= MaxMsgLen
          /\ Commit(CallUpdate(msg))

\* h.digest()
CallDigest ==
    LET d == Digest(heap, h)
    IN  [heap |-> Collect(d.heap, Roots(h)), h |-> h, given |-> given,
         ret |-> [Idle EXCEPT !.op = "digest", !.out = d.val]]

DigestOp ==
    /\ ret.op = "idle"
    /\ h.alive
    /\ Commit(CallDigest)

\* h.hexdigest()
CallHexdigest ==
    LET d == Hexdigest(heap, h)
    IN  [heap |-> Collect(d.heap, Roots(h)), h |-> h, given |-> given,
         ret |-> [Idle EXCEPT !.op = "hexdigest", !.out = d.val]]

HexdigestOp ==
    /\ ret.op = "idle"
    /\ h.alive
    /\ Commit(CallHexdigest)

\* h.verify(hmac) for a str, bytes or other value
CallVerifyValue(hmac) ==
    LET v == Verify(heap, h, hmac, NoCtx)
    IN  [heap |-> Collect(v.heap, Roots(h)), h |-> h, given |-> given,
         ret |-> [Idle EXCEPT !.op = "verify", !.exc = v.exc, !.out = v.val,
                              !.arg = hmac, !.kind = "value"]]

VerifyValue ==
    /\ ret.op = "idle"
    /\ h.alive
    /\ \E hmac \in VerifyArgs : Commit(CallVerifyValue(hmac))

\* h.verify(h.digest()), h.verify(h.hexdigest()), h.verify(h)
CallVerifyOwn(form) ==
    LET a == IF form = "digest" THEN Digest(heap, h)
             ELSE IF form = "hexdigest" THEN Hexdigest(heap, h)
             ELSE [heap |-> heap, val |-> Instance]
        v == Verify(a.heap, h, a.val, h)
    IN  [heap |-> Collect(v.heap, Roots(h)), h |-> h, given |-> given,
         ret |-> [Idle EXCEPT !.op = "verify", !.exc = v.exc, !.out = v.val,
                              !.arg = a.val, !.kind = "own." \o form]]

VerifyOwn ==
    /\ ret.op = "idle"
    /\ h.alive
    /\ \E form \in Forms : Commit(CallVerifyOwn(form))

\* other = KHMAC(key, msg, <h's hash function>), then h.verify(other) or
\* h.verify(other.digest())
CallVerifyOther(key, msg, form) ==
    LET c == Construct(heap, Bytes(key), Bytes(msg), HfCallable(given.alg), "o1", "o2")
        d == Digest(c.heap, c.self)
        a == IF form = "digest" THEN d ELSE [heap |-> d.heap, val |-> Instance]
        v == Verify(a.heap, h, a.val, c.self)
    IN  [heap |-> Collect(v.heap, Roots(h)), h |-> h, given |-> given,
         ret |-> [Idle EXCEPT !.op = "verify", !.exc = v.exc, !.out = v.val,
                              !.kind = "other." \o form,
                              !.sameKey = (key = given.key),
                              !.sameMsg = (msg = given.msg),
                              !.sameDigest = (d.val = Digest(heap, h).val)]]

VerifyOther ==
    /\ ret.op = "idle"
    /\ h.alive
    /\ \E key \in Keys, msg \in Msgs, form \in {"digest", "instance"} :
          Commit(CallVerifyOther(key, msg, form))

\* twin = KHMAC(<h's key>, A, <h's hash function>); twin.update(B), for a
\* split A + B of h's total message; then h.verify(twin.hexdigest())
CallVerifyTwin(n) ==
    LET A == SubSeq(given.msg, 1, n)
        B == SubSeq(given.msg, n + 1, Len(given.msg))
        c == Construct(heap, Bytes(given.key), Bytes(A), HfCallable(given.alg), "o1", "o2")
        u == Update(c.heap, c.self, Bytes(B))
        a == Hexdigest(u.heap, c.self)
        v == Verify(a.heap, h, a.val, c.self)
    IN  [heap |-> Collect(v.heap, Roots(h)), h |-> h, given |-> given,
         ret |-> [Idle EXCEPT !.op = "verify", !.exc = v.exc, !.out = v.val,
                              !.arg = a.val, !.kind = "twin.hexdigest",
                              !.sameKey = TRUE, !.sameMsg = TRUE,
                              !.sameDigest =
                                  (Digest(u.heap, c.self).val = Digest(heap, h).val)]]

VerifyTwin ==
    /\ ret.op = "idle"
    /\ h.alive
    /\ \E n \in 0..Len(given.msg) : Commit(CallVerifyTwin(n))

\* h.copy(), as the package's example calls it
CallCopy ==
    [heap |-> heap, h |-> h, given |-> given,
     ret |-> [Idle EXCEPT !.op = "copy", !.exc = CallMethod("copy")]]

CopyOp ==
    /\ ret.op = "idle"
    /\ h.alive
    /\ Commit(CallCopy)

\* the caller takes the outcome of the call
Return ==
    /\ ret.op # "idle"
    /\ ret' = Idle
    /\ UNCHANGED <<heap, h, given>>

Next ==
    \/ New
    \/ UpdateOp
    \/ DigestOp
    \/ HexdigestOp
    \/ VerifyValue
    \/ VerifyOwn
    \/ VerifyOther
    \/ VerifyTwin
    \/ CopyOp
    \/ Return

Spec == Init /\ [][Next]_vars

----------------------------------------------------------------------------
(* The claims *)

ReadOps == {"digest", "hexdigest", "verify"}

\* the digest of a context built in one step from key, msg and algorithm a
OneShot(key, msg, a) ==
    LET c == Construct([r \in Refs |-> NoObj], Bytes(key), Bytes(msg), HfCallable(a),
                       "o1", "o2")
    IN  Digest(c.heap, c.self).val

\* k followed by zero bytes up to length n
ZeroPad(k, n) == k \o [i \in 1..(IF Len(k) < n THEN n - Len(k) ELSE 0) |-> 0]

\* the effective key as the specification describes it
ClaimedKey(k, a) ==
    IF Len(k) > block_size(a) THEN ZeroPad(ToyDigest(a, k), block_size(a))
    ELSE ZeroPad(k, block_size(a))

\* both hash objects of h are seeded with key e under the two pads
SeededWith(e) ==
    /\ heap[h.block_1].data = [i \in 1..Len(e) |-> OPAD[e[i]]]
    /\ Len(heap[h.block_2].data) >= Len(e)
    /\ SubSeq(heap[h.block_2].data, 1, Len(e)) = [i \in 1..Len(e) |-> IPAD[e[i]]]

\* C1: after the constructor's message and any sequence of byte updates,
\* the inner hash object has absorbed the padded key followed by exactly the
\* concatenation of the fragments, and digest() equals the digest of a
\* context built in one step from the same key and the whole message.
C1_Chunking ==
    h.alive =>
        /\ heap[h.block_2].data =
               xor(NormalizeKey(given.key, given.alg), IPAD) \o given.msg
        /\ Digest(heap, h).val = OneShot(given.key, given.msg, given.alg)

\* an update of a non-empty fragment onto a non-empty message has returned
C1_Witness ==
    /\ ret.op = "update"
    /\ ret.exc = ""
    /\ Len(ret.arg.v) >= 1
    /\ Len(given.msg) > Len(ret.arg.v)

\* C2: digest(), hexdigest() and verify() leave both hash objects of the
\* context exactly as they were, and the digest after the call is the digest
\* before it.
C2_ReadsKeepState ==
    [][(ret'.op \in ReadOps) =>
          /\ heap' = heap
          /\ h' = h
          /\ Digest(heap', h').val = Digest(heap, h).val]_vars

\* a read has returned on a context that absorbed a message
C2_Witness ==
    /\ ret.op \in ReadOps
    /\ h.alive
    /\ Len(given.msg) >= 1

\* C3: h.verify(h.digest()) returns true for every context.
C3_OwnDigestAccepted ==
    (ret.op = "verify" /\ ret.kind = "own.digest") => (ret.exc = "" /\ ret.out = PyTrue)

\* C4: h.verify(other) and h.verify(other.digest()) return false whenever
\* other's key or other's total message differs from h's.
C4_DifferentInputsRejected ==
    (/\ ret.op = "verify"
     /\ ret.kind \in {"other.instance", "other.digest"}
     /\ (~ret.sameKey \/ ~ret.sameMsg))
        => (ret.exc = "" /\ ret.out = PyFalse)

\* C4 as amended: h.verify(other) and h.verify(other.digest()) return false
\* whenever other's digest differs from h's digest.
C4_DifferentDigestsRejected ==
    (/\ ret.op = "verify"
     /\ ret.kind \in {"other.instance", "other.digest"}
     /\ ~ret.sameDigest)
        => (ret.exc = "" /\ ret.out = PyFalse)

\* verify has returned for another context with another key, the same
\* message and another digest
C4_Witness ==
    /\ ret.op = "verify"
    /\ ret.kind = "other.instance"
    /\ ~ret.sameKey
    /\ ret.sameMsg
    /\ ~ret.sameDigest
    /\ ret.out = PyFalse

\* C5: h.copy() yields a context (an independent clone), not an error.
C5_CloneAvailable ==
    (ret.op = "copy") => (ret.exc = "" /\ ret.out.t = "KHMAC")

C7_VerifyNeverRaises ==
    (ret.op = "verify" /\ (ret.kind = "value" => ret.arg.t \in {"str", "bytes"}))
        => /\ ret.exc = ""
           /\ ret.out.t = "bool"
           /\ (ret.kind = "value" /\ unhexlify(ret.arg).exc # "") => ret.out = PyFalse

\* C8: update(text) succeeds and absorbs the encoded text; update is
\* rejected only for an argument that is neither text nor bytes.
C8_TextUpdateAccepted ==
    (ret.op = "update" /\ ret.arg.t \in {"str", "bytes"}) => ret.exc = ""

\* C9: h.verify(h.hexdigest()) returns true, and so does h.verify of the
\* hexdigest of any other context with the same key, algorithm and total
\* message.
C9_HexdigestAccepted ==
    (ret.op = "verify" /\ ret.kind \in {"own.hexdigest", "twin.hexdigest"})
        => (ret.exc = "" /\ ret.out = PyTrue)

\* verify has returned for the hexdigest of a context that absorbed a message
C9_Witness ==
    /\ ret.op = "verify"
    /\ ret.kind = "own.hexdigest"
    /\ ret.arg.t = "str"
    /\ Len(ret.arg.v) = 2 * digest_size(given.alg)
    /\ Len(given.msg) >= 1

\* C10: the constructor raises the type error for a key or message that is
\* neither text nor bytes, the unsupported-algorithm error for a hash_func
\* that is not callable and names no hash constructor, and nothing else.
C10_ConstructorRejections ==
    (ret.op = "new") =>
        ret.exc =
            IF ret.keyT \notin {"str", "bytes"} \/ ret.msgT \notin {"str", "bytes"}
            THEN "TypeError"
            ELSE IF ret.hf.t # "callable" /\ ~(ret.hf.t = "str" /\ ret.hf.name \in Algs)
                 THEN "ValueError"
                 ELSE ""

====
